---- MODULE Spec2Model ----
(***************************************************************************)
(* Model of the singly linked list of linked_list.c (src/unnamed/part_001) *)
(* and of the iterator it is built on.                                     *)
(*                                                                         *)
(* The heap is a finite array of link cells.  Cell 0 is the sentinel that  *)
(* linked_list_create allocates; the other cells are what calloc can hand  *)
(* out.  calloc may return NULL or a cell that is not live; the free cell  *)
(* a dangling pointer still refers to is one of them, so a dangling        *)
(* pointer can come to alias a new link.  The bytes of a freed             *)
(* cell are indeterminate and calloc zeroes a cell it hands out, so the    *)
(* model keeps no contents for a free cell: a write through a dangling     *)
(* pointer either lands in the free cell and leaves no trace, or kills     *)
(* the process; a read or write through NULL kills the process.  The same  *)
(* holds for a live cell that cannot be reached from the sentinel or from  *)
(* the caller's iterator: no operation reads it, so its contents are not   *)
(* kept.  Cell                                                             *)
(* addresses carry no meaning, so after every operation the cells are      *)
(* renumbered: the links of the list in list order, then the others.       *)
(***************************************************************************)
EXTENDS Integers, Sequences, FiniteSets, TLC

\* ---------------------------------------------------------------- bounds
\* Number of link cells besides the sentinel.
MaxNodes == 3
\* Payload values are 1..MaxVal.
MaxVal == 2
\* Width of int and of size_t.  The widths of the build (32 and 64) do not
\* fit the model checker's integers; the model keeps int narrower than
\* size_t and both wider than any index or size that occurs.
IntBits == 8
SizeBits == 16

\* -------------------------------------------------------------- constants
NULL == -1
NoValue == -1
Sentinel == 0

Nodes == 0..MaxNodes
Values == 1..MaxVal

VARIABLES
  heap,        \* [Nodes -> [value, next, status]]: the link cells
  last,        \* list->last
  size,        \* list->size
  crashed,     \* the process died on a NULL dereference or a bad write
  uaf,         \* the last operation wrote through a pointer to a freed link
  ret,         \* what the last operation returned
  op,          \* the last operation: its name and arguments
  pre,         \* the list as it was before the last operation
  hist,        \* what has happened since linked_list_create
  fun,         \* list->fun, the equality function given to linked_list_create
  iter,        \* iter->current of the caller's iterator, NULL when it has none
  trace        \* the callbacks and iterator steps of the last operation

vars == <<heap, last, size, crashed, uaf, ret, op, pre, hist, fun, iter, trace>>

\* ------------------------------------------------------ integer conversions
ToSizeT(x) == x % (2 ^ SizeBits)

ToInt(x) ==
  LET m == x % (2 ^ IntBits)
  IN IF m >= 2 ^ (IntBits - 1) THEN m - 2 ^ IntBits ELSE m

\* ------------------------------------------------------------------ links
first == Sentinel

Cell(v, n, s) == [value |-> v, next |-> n, status |-> s]

\* The cells calloc can return for list l when it succeeds.  Free cells that
\* no pointer of the program refers to are interchangeable, so one of them
\* (the lowest) stands for all; the free cell list->last still refers to is
\* the other choice.
FreeCells(l) == {n \in Nodes : l.heap[n].status # "live"}

Unreferenced(l) == {n \in FreeCells(l) : n # l.last}

LinkNewChoices(l) ==
  (FreeCells(l) \cap {l.last})
    \cup {n \in Unreferenced(l) : \A m \in Unreferenced(l) : n <= m}

\* link_new with calloc returning `new`: the zeroed cell gets value and next.
link_new(h, new, value, nxt) ==
  IF new = NULL THEN h ELSE [h EXCEPT ![new] = Cell(value, nxt, "live")]

\* free(link): the cell is released and its bytes are no longer the list's.
FreeLink(h, n) == [h EXCEPT ![n] = Cell(0, NULL, "free")]

\* h after `h[n].next = to`; a store into a free cell leaves no trace.
StoreNext(h, n, to) ==
  IF h[n].status = "live" THEN [h EXCEPT ![n].next = to] ELSE h

\* --------------------------------------------------------------- iterator
list_iterator == first

iterator_has_next(h, cur) == h[cur].next # NULL

\* The position after iterator_next; NULL when there was no next link, and
\* then the read of its value dereferences NULL.
iterator_next(h, cur) == h[cur].next

\* iterator_current that reads the link under the cursor.
iterator_current_AtCursor(h, cur) ==
  IF ~iterator_has_next(h, cur) THEN NoValue ELSE h[cur].value

iterator_current(h, cur) ==
  IF ~iterator_has_next(h, cur) THEN NoValue ELSE h[h[cur].next].value

\* iterator_insert whose new link gets no successor.
iterator_insert_DropsRest(h, cur, new, element) ==
  IF new = NULL
  THEN h
  ELSE StoreNext(link_new(h, new, element, NULL), cur, new)

iterator_insert(h, cur, new, element) ==
  IF new = NULL
  THEN h
  ELSE StoreNext(link_new(h, new, element, h[cur].next), cur, new)

\* iterator_remove that frees the link without taking it out of the list.
iterator_remove_NoRelink(h, cur) == FreeLink(h, h[cur].next)

\* iterator_remove that cuts the list off behind the cursor.
iterator_remove_DropsRest(h, cur) ==
  FreeLink(StoreNext(h, cur, NULL), h[cur].next)

\* Only called with a link after cur.
iterator_remove(h, cur) ==
  LET link_to_remove == h[cur].next
  IN FreeLink(StoreNext(h, cur, h[link_to_remove].next), link_to_remove)

iterator_reset == first

\* k calls of iterator_next from cur; NULL as soon as one of them has no
\* link to step to.
RECURSIVE Advance(_, _, _)
Advance(h, cur, k) ==
  IF k = 0 THEN cur
  ELSE IF iterator_next(h, cur) = NULL THEN NULL
  ELSE Advance(h, iterator_next(h, cur), k - 1)

\* ------------------------------------------------------- derived: the chain
\* The links after cur, in order (fuel bounds the walk).
RECURSIVE ChainFrom(_, _, _)
ChainFrom(h, cur, fuel) ==
  IF fuel = 0 \/ h[cur].next = NULL THEN <<>>
  ELSE <<h[cur].next>> \o ChainFrom(h, h[cur].next, fuel - 1)

Chain(h) == ChainFrom(h, first, MaxNodes + 1)

Range(seq) == {seq[i] : i \in DOMAIN seq}

\* The stored values, first to last.
Elements(h) == [i \in 1..Len(Chain(h)) |-> h[Chain(h)[i]].value]

\* No link is met twice on the way from the sentinel, and the sentinel is not
\* met again.
Acyclic(h) ==
  /\ Len(Chain(h)) = Cardinality(Range(Chain(h)))
  /\ first \notin Range(Chain(h))

RECURSIVE Ascending(_)
Ascending(S) ==
  IF S = {} THEN <<>>
  ELSE LET m == CHOOSE x \in S : \A y \in S : x <= y
       IN <<m>> \o Ascending(S \ {m})

\* The same memory with the cells renamed: the links of the list become
\* 1, 2, ... in list order; then come the cells the caller's iterator (at it,
\* NULL when there is none) can reach outside the list, the cell list->last
\* refers to when it is none of these, the other live cells, and the free
\* ones.  A cell that neither the list nor the iterator reaches keeps only its
\* status.
Renumber(h, l, it) ==
  LET chain == Chain(h)
      inList == Range(chain) \cup {first}
      iterOnly == IF it = NULL THEN {}
                  ELSE ({it} \cup Range(ChainFrom(h, it, MaxNodes + 1)))
                         \ inList
      kept == inList \cup iterOnly
      rest == Nodes \ (kept \cup {l})
      order == chain \o Ascending(iterOnly)
                 \o (IF l \notin kept THEN <<l>> ELSE <<>>)
                 \o Ascending({n \in rest : h[n].status = "live"})
                 \o Ascending({n \in rest : h[n].status # "live"})
      To(n) == IF n = NULL \/ n = first THEN n
               ELSE CHOOSE i \in 1..Len(order) : order[i] = n
      From(i) == IF i = first THEN first ELSE order[i]
  IN IF ~Acyclic(h) THEN [heap |-> h, last |-> l, iter |-> it]
     ELSE [heap |-> [i \in Nodes |->
                       IF From(i) \in kept
                       THEN Cell(h[From(i)].value, To(h[From(i)].next),
                                 h[From(i)].status)
                       ELSE Cell(0, NULL, h[From(i)].status)],
           last |-> To(l),
           iter |-> To(it)]

\* ------------------------------------------------------- index adjustment
\* list_inner_adjust_index without the test against upper_bound.
list_inner_adjust_index_NoUpperCheck(index, upper_bound) ==
  LET index_adjusted ==
        IF index < 0
        THEN ToInt(ToSizeT(ToSizeT(index) + upper_bound))
        ELSE index
  IN IF index_adjusted < 0 THEN -1 ELSE index_adjusted

\* list_inner_adjust_index that rejects every negative index.
list_inner_adjust_index_NoNegative(index, upper_bound) ==
  IF index < 0 THEN -1
  ELSE IF ToSizeT(index) > upper_bound THEN -1
  ELSE index

\* list_inner_adjust_index that counts a negative index from one past
\* upper_bound.
list_inner_adjust_index_FromEnd(index, upper_bound) ==
  LET index_adjusted ==
        IF index < 0
        THEN ToInt(ToSizeT(ToSizeT(index) + upper_bound + 1))
        ELSE index
  IN IF index_adjusted < 0 THEN -1
     ELSE IF ToSizeT(index_adjusted) > upper_bound THEN -1
     ELSE index_adjusted

\* index is an int, upper_bound a size_t.  index + upper_bound is computed
\* in size_t and converted back to int.
list_inner_adjust_index(index, upper_bound) ==
  LET index_adjusted ==
        IF index < 0
        THEN ToInt(ToSizeT(ToSizeT(index) + upper_bound))
        ELSE index
  IN IF index_adjusted < 0 THEN -1
     ELSE IF ToSizeT(index_adjusted) > upper_bound THEN -1
     ELSE index_adjusted

\* ------------------------------------------------------------ list queries
\* A list l is [heap, last, size]; the outcome of an operation is the list
\* after it, what it returned, whether the process died in it and whether it
\* wrote through a pointer to a freed link.
Outcome(h, lst, sz, r, dead, dangling) ==
  [heap |-> h, last |-> lst, size |-> sz, ret |-> r, crashed |-> dead,
   uaf |-> dangling]

Returns(l, r) == Outcome(l.heap, l.last, l.size, r, FALSE, FALSE)

Dies(l) == Outcome(l.heap, l.last, l.size, NoValue, TRUE, FALSE)

linked_list_size(l) == l.size

linked_list_is_empty(l) == linked_list_size(l) = 0

\* Counts the links by has_next/next from the sentinel (fuel bounds the walk).
RECURSIVE CountFrom(_, _, _)
CountFrom(h, cur, fuel) ==
  IF fuel = 0 \/ ~iterator_has_next(h, cur) THEN 0
  ELSE 1 + CountFrom(h, iterator_next(h, cur), fuel - 1)

linked_list_calculate_size(l) == CountFrom(l.heap, list_iterator, MaxNodes + 1)

\* linked_list_get that stores the number of links it finds in list->size.
linked_list_get_CachesCount(l, index) ==
  LET size_int == ToInt(linked_list_size(l))
      upper_limit == ToInt(size_int - 1)
      adjusted_index == list_inner_adjust_index(index, ToSizeT(upper_limit))
      valid_index == ToSizeT(adjusted_index)
      cur == Advance(l.heap, list_iterator, valid_index)
      counted == [l EXCEPT !.size = linked_list_calculate_size(l)]
  IN IF adjusted_index = -1 THEN Returns(counted, NoValue)
     ELSE IF cur = NULL THEN Dies(l)
     ELSE Returns(counted, iterator_current(l.heap, cur))

\* The process dies when the walk steps past the last link.
linked_list_get(l, index) ==
  LET size_int == ToInt(linked_list_size(l))
      upper_limit == ToInt(size_int - 1)
      adjusted_index == list_inner_adjust_index(index, ToSizeT(upper_limit))
      valid_index == ToSizeT(adjusted_index)
      cur == Advance(l.heap, list_iterator, valid_index)
  IN IF adjusted_index = -1 THEN Returns(l, NoValue)
     ELSE IF cur = NULL THEN Dies(l)
     ELSE Returns(l, iterator_current(l.heap, cur))

\* --------------------------------------------------------- list mutations
\* Each gives the set of its possible outcomes; calloc returned `new` (NULL:
\* the allocation failed).

\* linked_list_append that gives the new link list->first as its next.
linked_list_append_Circular(l, value, new) ==
  IF new = NULL THEN {Returns(l, 0)}
  ELSE {Outcome(StoreNext(link_new(l.heap, new, value, first), l.last, new),
                new, ToSizeT(l.size + 1), 0, FALSE, FALSE)}

linked_list_append(l, value, new) ==
  IF new = NULL THEN {Returns(l, 0)}
  ELSE LET dangling == l.heap[l.last].status # "live"
           h1 == link_new(l.heap, new, value, NULL)
       IN {Outcome(StoreNext(h1, l.last, new), new, ToSizeT(l.size + 1), 0,
                   FALSE, dangling)}
            \cup (IF dangling
                  THEN {Outcome(l.heap, l.last, l.size, 0, TRUE, TRUE)}
                  ELSE {})

\* linked_list_prepend without size += 1.
linked_list_prepend_NoSizeUpdate(l, value, new) ==
  IF new = NULL THEN {Returns(l, 0)}
  ELSE {Outcome(StoreNext(link_new(l.heap, new, value, l.heap[first].next),
                          first, new),
                IF first = l.last THEN new ELSE l.last,
                l.size, 0, FALSE, FALSE)}

\* linked_list_prepend without the first == last case.
linked_list_prepend_NoTailUpdate(l, value, new) ==
  IF new = NULL THEN {Returns(l, 0)}
  ELSE {Outcome(StoreNext(link_new(l.heap, new, value, l.heap[first].next),
                          first, new),
                l.last, ToSizeT(l.size + 1), 0, FALSE, FALSE)}

linked_list_prepend(l, value, new) ==
  IF new = NULL THEN {Returns(l, 0)}
  ELSE {Outcome(StoreNext(link_new(l.heap, new, value, l.heap[first].next),
                          first, new),
                IF first = l.last THEN new ELSE l.last,
                ToSizeT(l.size + 1), 0, FALSE, FALSE)}

linked_list_insert(l, index, value, new) ==
  LET sz == linked_list_size(l)
      adjusted_index == list_inner_adjust_index(index, sz)
      valid_index == ToSizeT(adjusted_index)
      cur == Advance(l.heap, list_iterator, valid_index)
  IN IF adjusted_index = -1 THEN {Returns(l, 0)}
     ELSE IF valid_index = 0 THEN linked_list_prepend(l, value, new)
     ELSE IF valid_index = sz THEN linked_list_append(l, value, new)
     ELSE IF cur = NULL THEN {Dies(l)}
     ELSE {Outcome(iterator_insert(l.heap, cur, new, value), l.last,
                   ToSizeT(l.size + 1), 0, FALSE, FALSE)}

\* linked_list_remove with size as its upper limit, as insert has.
linked_list_remove_BoundIsSize(l, index) ==
  LET size_int == ToInt(linked_list_size(l))
      adjusted_index == list_inner_adjust_index(index, ToSizeT(size_int))
      valid_index == ToSizeT(adjusted_index)
      cur == Advance(l.heap, list_iterator, valid_index)
  IN IF adjusted_index = -1 THEN {Returns(l, NoValue)}
     ELSE IF cur = NULL \/ l.heap[cur].next = NULL THEN {Dies(l)}
     ELSE {Outcome(iterator_remove(l.heap, cur), l.last, ToSizeT(l.size - 1),
                   l.heap[l.heap[cur].next].value, FALSE, FALSE)}

linked_list_remove(l, index) ==
  LET size_int == ToInt(linked_list_size(l))
      upper_limit == ToInt(size_int - 1)
      adjusted_index == list_inner_adjust_index(index, ToSizeT(upper_limit))
      valid_index == ToSizeT(adjusted_index)
      cur == Advance(l.heap, list_iterator, valid_index)
  IN IF adjusted_index = -1 THEN {Returns(l, NoValue)}
     ELSE IF cur = NULL \/ l.heap[cur].next = NULL THEN {Dies(l)}
     ELSE {Outcome(iterator_remove(l.heap, cur), l.last, ToSizeT(l.size - 1),
                   l.heap[l.heap[cur].next].value, FALSE, FALSE)}

\* The loop of linked_list_clear: remove the link after the sentinel, reset,
\* size -= 1, while the sentinel has a next (fuel bounds the loop).
RECURSIVE ClearLoop(_, _, _)
ClearLoop(h, sz, fuel) ==
  IF fuel = 0 \/ ~iterator_has_next(h, iterator_reset)
  THEN [heap |-> h, size |-> sz, steps |-> 0]
  ELSE [ClearLoop(iterator_remove(h, iterator_reset), ToSizeT(sz - 1),
                  fuel - 1) EXCEPT !.steps = @ + 1]

\* The number of iterator_remove calls linked_list_clear makes.
ClearSteps(l) ==
  IF linked_list_is_empty(l) THEN 0
  ELSE ClearLoop(l.heap, l.size, MaxNodes + 1).steps

\* linked_list_clear without list->size -= 1 in its loop.
linked_list_clear_NoSizeUpdate(l) ==
  IF linked_list_is_empty(l) THEN {Returns(l, 0)}
  ELSE LET r == ClearLoop(l.heap, l.size, MaxNodes + 1)
       IN {Outcome(r.heap, l.last, l.size, 0, FALSE, FALSE)}

linked_list_clear(l) ==
  IF linked_list_is_empty(l) THEN {Returns(l, 0)}
  ELSE LET r == ClearLoop(l.heap, l.size, MaxNodes + 1)
       IN {Outcome(r.heap, l.last, r.size, 0, FALSE, FALSE)}

\* ---------------------------------------------------------------- queries
\* What an operation did besides changing the list: the cells whose values it
\* passed to a callback, in order (the links of a list are numbered in list
\* order, so link i is cell i and the sentinel cell 0), and the number of
\* its iterator_next calls (of its iterator_remove calls for clear).  For
\* the caller's own iterator_next calls: the values yielded by the calls in a
\* row, and their number.
Trace(calls, steps) == [calls |-> calls, steps |-> steps]

NoTrace == Trace(<<>>, 0)

\* The equality functions a list is created with.
compare_int_elements(a, b) == a = b

dummy_func_ptr(a, b) == TRUE

Comparators == {"compare_int_elements", "dummy_func_ptr"}

\* list->fun(a, b)
Equals(f, a, b) ==
  IF f = "compare_int_elements" THEN compare_int_elements(a, b)
  ELSE dummy_func_ptr(a, b)

\* The predicates given to all and any; extra points to an int.
int_less(element, extra) == element < extra

int_equiv(value, extra) == value = extra

Predicates == {"int_less", "int_equiv"}

Extras == 1..(MaxVal + 1)

\* prop(element, extra)
Holds(p, element, extra) ==
  IF p = "int_less" THEN int_less(element, extra) ELSE int_equiv(element, extra)

\* The result of a query and what it did.
Answer(r, t) == [ret |-> IF r THEN 1 ELSE 0, trace |-> t]

\* The loop of linked_list_contains: step to the next link, compare its value,
\* break on the first match.
RECURSIVE ContainsLoop(_, _, _, _, _, _)
ContainsLoop(h, f, cur, element, t, fuel) ==
  IF fuel = 0 \/ ~iterator_has_next(h, cur) THEN Answer(FALSE, t)
  ELSE LET nxt == iterator_next(h, cur)
           t1 == Trace(Append(t.calls, nxt), t.steps + 1)
       IN IF Equals(f, h[nxt].value, element) THEN Answer(TRUE, t1)
          ELSE ContainsLoop(h, f, nxt, element, t1, fuel - 1)

\* linked_list_contains that compares the value slot of list->first as well.
linked_list_contains_FromFirst(l, f, element) ==
  IF Equals(f, l.heap[first].value, element)
  THEN Answer(TRUE, Trace(<<first>>, 0))
  ELSE ContainsLoop(l.heap, f, list_iterator, element, Trace(<<first>>, 0),
                    MaxNodes + 1)

linked_list_contains(l, f, element) ==
  ContainsLoop(l.heap, f, list_iterator, element, NoTrace, MaxNodes + 1)

\* The loop of linked_list_all: result = result && prop(current), then
\* iterator_next, as long as there is a next link; && calls prop only while
\* result is true.
RECURSIVE AllLoop(_, _, _, _, _, _, _)
AllLoop(h, cur, p, extra, result, t, fuel) ==
  IF fuel = 0 \/ ~iterator_has_next(h, cur) THEN Answer(result, t)
  ELSE AllLoop(h, iterator_next(h, cur), p, extra,
               result /\ Holds(p, iterator_current(h, cur), extra),
               Trace(IF result THEN Append(t.calls, h[cur].next) ELSE t.calls,
                     t.steps + 1),
               fuel - 1)

\* linked_list_all with result initialised to false.
linked_list_all_StartsFalse(l, p, extra) ==
  AllLoop(l.heap, list_iterator, p, extra, FALSE, NoTrace, MaxNodes + 1)

linked_list_all(l, p, extra) ==
  AllLoop(l.heap, list_iterator, p, extra, TRUE, NoTrace, MaxNodes + 1)

\* The loop of linked_list_any: while there is a next link and result is
\* false, result = !result && prop(current), then iterator_next.
RECURSIVE AnyLoop(_, _, _, _, _, _, _)
AnyLoop(h, cur, p, extra, result, t, fuel) ==
  IF fuel = 0 \/ ~(iterator_has_next(h, cur) /\ ~result)
  THEN Answer(result, t)
  ELSE AnyLoop(h, iterator_next(h, cur), p, extra,
               ~result /\ Holds(p, iterator_current(h, cur), extra),
               Trace(IF ~result THEN Append(t.calls, h[cur].next)
                                ELSE t.calls,
                     t.steps + 1),
               fuel - 1)

\* The loop of linked_list_any without && !result in its condition.
RECURSIVE AnyLoop_NoStop(_, _, _, _, _, _, _)
AnyLoop_NoStop(h, cur, p, extra, result, t, fuel) ==
  IF fuel = 0 \/ ~iterator_has_next(h, cur) THEN Answer(result, t)
  ELSE AnyLoop_NoStop(h, iterator_next(h, cur), p, extra,
                      result \/ Holds(p, iterator_current(h, cur), extra),
                      Trace(IF ~result THEN Append(t.calls, h[cur].next)
                                       ELSE t.calls,
                            t.steps + 1),
                      fuel - 1)

linked_list_any_NoStop(l, p, extra) ==
  AnyLoop_NoStop(l.heap, list_iterator, p, extra, FALSE, NoTrace,
                 MaxNodes + 1)

linked_list_any(l, p, extra) ==
  AnyLoop(l.heap, list_iterator, p, extra, FALSE, NoTrace, MaxNodes + 1)

\* set_value: *value = *extra
set_value(h, cursor, extra) == [h EXCEPT ![cursor].value = extra]

\* The loop of linked_list_apply_to_all: fun(&cursor->value, extra) for
\* cursor = list->first, then each next, until cursor is NULL.
RECURSIVE ApplyLoop(_, _, _, _, _)
ApplyLoop(h, cursor, extra, calls, fuel) ==
  IF fuel = 0 \/ cursor = NULL THEN [heap |-> h, trace |-> Trace(calls, 0)]
  ELSE ApplyLoop(set_value(h, cursor, extra), h[cursor].next, extra,
                 Append(calls, cursor), fuel - 1)

linked_list_apply_to_all(l, extra) ==
  ApplyLoop(l.heap, first, extra, <<>>, MaxNodes + 2)

\* ------------------------------------------------------------ the program
List == [heap |-> heap, last |-> last, size |-> size]

\* The values of the links after cur, in order.
ValuesFrom(h, cur) ==
  [i \in 1..Len(ChainFrom(h, cur, MaxNodes + 1)) |->
     h[ChainFrom(h, cur, MaxNodes + 1)[i]].value]

\* The list and the caller's iterator before an operation: at is the cell of
\* the cursor and rest the values after it (NULL and none without iterator).
Snapshot ==
  [elems |-> Elements(heap), size |-> size, last |-> last, at |-> iter,
   rest |-> IF iter = NULL THEN <<>> ELSE ValuesFrom(heap, iter)]

Call(name, index, value) == [name |-> name, index |-> index, value |-> value]

\* The indexes tried on a list of cached size sz reach one past both ends.
Indexes(sz) ==
  LET m == IF sz <= MaxNodes THEN sz + 1 ELSE MaxNodes + 1
  IN (0 - m)..m

\* The operation ended with outcome o, the caller's iterator at it.
Finish(o, it, t) ==
  /\ \E r \in {Renumber(o.heap, o.last, it)} :
       heap' = r.heap /\ last' = r.last /\ iter' = r.iter
  /\ size' = o.size
  /\ ret' = o.ret
  /\ crashed' = o.crashed
  /\ uaf' = o.uaf
  /\ pre' = Snapshot
  /\ trace' = t
  /\ fun' = fun

Commit(o) == Finish(o, iter, NoTrace)

\* hist.inserts counts the calls that put a link into the list, as long as
\* nothing was removed; hist.removed says that a remove took a link out or
\* that a clear has run.
Record(inserted, removal) ==
  hist' = IF hist.removed \/ removal
          THEN [inserts |-> 0, removed |-> TRUE]
          ELSE [inserts |-> hist.inserts + (IF inserted THEN 1 ELSE 0),
                removed |-> FALSE]

\* The state after linked_list_create(f).
Created(f) ==
  /\ heap = [n \in Nodes |-> IF n = Sentinel THEN Cell(0, NULL, "live")
                                             ELSE Cell(0, NULL, "free")]
  /\ last = first
  /\ size = 0
  /\ crashed = FALSE
  /\ uaf = FALSE
  /\ ret = 0
  /\ op = Call("create", 0, 0)
  /\ pre = [elems |-> <<>>, size |-> 0, last |-> first, at |-> NULL,
            rest |-> <<>>]
  /\ hist = [inserts |-> 0, removed |-> FALSE]
  /\ fun = f
  /\ iter = NULL
  /\ trace = NoTrace

Init == Created("compare_int_elements")

OpAppend ==
  /\ ~crashed /\ size < MaxNodes
  /\ \E value \in Values, new \in LinkNewChoices(List) :
       \E o \in linked_list_append(List, value, new) :
         /\ Commit(o)
         /\ op' = Call("append", size, value)
         /\ Record(~o.crashed, FALSE)

OpPrepend ==
  /\ ~crashed /\ size < MaxNodes
  /\ \E value \in Values, new \in LinkNewChoices(List) :
       \E o \in linked_list_prepend(List, value, new) :
         /\ Commit(o)
         /\ op' = Call("prepend", 0, value)
         /\ Record(~o.crashed, FALSE)

OpInsert ==
  /\ ~crashed /\ size < MaxNodes
  /\ \E index \in Indexes(size), value \in Values,
        new \in LinkNewChoices(List) :
       \E o \in linked_list_insert(List, index, value, new) :
         /\ Commit(o)
         /\ op' = Call("insert", index, value)
         /\ Record(~o.crashed /\ o.heap # heap, FALSE)

OpRemove ==
  /\ ~crashed
  /\ \E index \in Indexes(size) :
       \E o \in linked_list_remove(List, index) :
         /\ Commit(o)
         /\ op' = Call("remove", index, 0)
         /\ Record(FALSE, o.heap # heap)

OpGet ==
  /\ ~crashed
  /\ \E index \in Indexes(size) :
       /\ Commit(linked_list_get(List, index))
       /\ op' = Call("get", index, 0)
  /\ UNCHANGED hist

OpClear ==
  /\ ~crashed
  /\ \E o \in linked_list_clear(List) :
       Finish(o, iter, Trace(<<>>, ClearSteps(List)))
  /\ op' = Call("clear", 0, 0)
  /\ Record(FALSE, TRUE)

Next == OpAppend \/ OpPrepend \/ OpInsert \/ OpRemove \/ OpGet \/ OpClear

Spec == Init /\ [][Next]_vars

\* ------------------------------------------------- allocation failure
\* The same three calls when calloc returns NULL (link_new then returns NULL).
OpAppendNoMem ==
  /\ ~crashed /\ size < MaxNodes
  /\ \E value \in Values :
       \E o \in linked_list_append(List, value, NULL) :
         /\ Commit(o)
         /\ op' = Call("append_nomem", size, value)
  /\ UNCHANGED hist

OpPrependNoMem ==
  /\ ~crashed /\ size < MaxNodes
  /\ \E value \in Values :
       \E o \in linked_list_prepend(List, value, NULL) :
         /\ Commit(o)
         /\ op' = Call("prepend_nomem", 0, value)
  /\ UNCHANGED hist

OpInsertNoMem ==
  /\ ~crashed /\ size < MaxNodes
  /\ \E index \in Indexes(size), value \in Values :
       \E o \in linked_list_insert(List, index, value, NULL) :
         /\ Commit(o)
         /\ op' = Call("insert_nomem", index, value)
  /\ UNCHANGED hist

NextAlloc ==
  \/ OpAppend \/ OpPrepend \/ OpInsert \/ OpRemove \/ OpGet \/ OpClear
  \/ OpAppendNoMem \/ OpPrependNoMem \/ OpInsertNoMem

SpecAlloc == Init /\ [][NextAlloc]_vars

\* ---------------------------------------------------------------- queries
\* A list created with any of the equality functions.
InitQuery == \E f \in Comparators : Created(f)

QueryCall(name, p, extra) ==
  [name |-> name, index |-> 0, value |-> extra, prop |-> p]

OpContains ==
  /\ ~crashed
  /\ \E element \in 0..MaxVal :
       LET a == linked_list_contains(List, fun, element)
       IN /\ Finish(Returns(List, a.ret), iter, a.trace)
          /\ op' = Call("contains", 0, element)
  /\ UNCHANGED hist

OpAll ==
  /\ ~crashed
  /\ \E p \in Predicates, extra \in Extras :
       LET a == linked_list_all(List, p, extra)
       IN /\ Finish(Returns(List, a.ret), iter, a.trace)
          /\ op' = QueryCall("all", p, extra)
  /\ UNCHANGED hist

OpAny ==
  /\ ~crashed
  /\ \E p \in Predicates, extra \in Extras :
       LET a == linked_list_any(List, p, extra)
       IN /\ Finish(Returns(List, a.ret), iter, a.trace)
          /\ op' = QueryCall("any", p, extra)
  /\ UNCHANGED hist

OpApplyToAll ==
  /\ ~crashed
  /\ \E extra \in Values :
       LET a == linked_list_apply_to_all(List, extra)
       IN /\ Finish(Outcome(a.heap, last, size, 0, FALSE, FALSE), iter,
                    a.trace)
          /\ op' = Call("apply_to_all", 0, extra)
  /\ UNCHANGED hist

\* Lists built by append and prepend and emptied by clear, asked with all and
\* any.
NextQuery == OpAppend \/ OpPrepend \/ OpClear \/ OpAll \/ OpAny

SpecQuery == Init /\ [][NextQuery]_vars

\* The same lists, created with any of the equality functions and asked with
\* contains.
NextContains == OpAppend \/ OpPrepend \/ OpClear \/ OpContains

SpecContains == InitQuery /\ [][NextContains]_vars

\* The same lists with apply_to_all.
NextApply == OpAppend \/ OpPrepend \/ OpClear \/ OpApplyToAll

SpecApply == Init /\ [][NextApply]_vars

\* --------------------------------------------------- the caller's iterator
\* linked_list_destroy: clear, then free(list->first) and free(list).
linked_list_destroy(l) ==
  {Outcome(FreeLink(c.heap, first), c.last, c.size, 0, FALSE, FALSE) :
     c \in linked_list_clear(l)}

\* The list has not been destroyed (and the process is running).
Alive == ~crashed /\ heap[first].status = "live"

OpDestroy ==
  /\ Alive
  /\ \E o \in linked_list_destroy(List) : Commit(o)
  /\ op' = Call("destroy", 0, 0)
  /\ Record(FALSE, TRUE)

OpListIterator ==
  /\ Alive /\ iter = NULL
  /\ Finish(Returns(List, 0), list_iterator, NoTrace)
  /\ op' = Call("list_iterator", 0, 0)
  /\ UNCHANGED hist

OpIteratorDestroy ==
  /\ Alive /\ iter # NULL
  /\ Finish(Returns(List, 0), NULL, NoTrace)
  /\ op' = Call("iterator_destroy", 0, 0)
  /\ UNCHANGED hist

\* Without a next link iter->current becomes NULL and the read of its value
\* dereferences NULL.
\* The values yielded by the iterator_next calls that came right before, and
\* their number: the trace of a traversal so far.
Yielded == IF op.name = "iterator_next" THEN trace ELSE NoTrace

\* iterator_next that reads the value before it moves.
OpIteratorNext_ReadsBeforeMove ==
  /\ Alive /\ iter # NULL
  /\ IF iterator_has_next(heap, iter)
     THEN Finish(Returns(List, heap[iter].value),
                 iterator_next(heap, iter),
                 Trace(Append(Yielded.calls, heap[iter].value),
                       Yielded.steps + 1))
     ELSE Finish(Dies(List), iter, NoTrace)
  /\ op' = Call("iterator_next", 0, 0)
  /\ UNCHANGED hist

OpIteratorNext ==
  /\ Alive /\ iter # NULL
  /\ IF iterator_has_next(heap, iter)
     THEN Finish(Returns(List, heap[iterator_next(heap, iter)].value),
                 iterator_next(heap, iter),
                 Trace(Append(Yielded.calls,
                              heap[iterator_next(heap, iter)].value),
                       Yielded.steps + 1))
     ELSE Finish(Dies(List), iter, NoTrace)
  /\ op' = Call("iterator_next", 0, 0)
  /\ UNCHANGED hist

OpIteratorInsert ==
  /\ Alive /\ iter # NULL
  /\ \E element \in Values, new \in LinkNewChoices(List) :
       /\ Finish(Outcome(iterator_insert(heap, iter, new, element), last,
                         size, 0, FALSE, FALSE), iter, NoTrace)
       /\ op' = Call("iterator_insert", 0, element)
  /\ Record(TRUE, FALSE)

\* Without a next link link_to_remove is NULL and the read of its value
\* dereferences NULL.
OpIteratorRemove ==
  /\ Alive /\ iter # NULL
  /\ IF iterator_has_next(heap, iter)
     THEN Finish(Outcome(iterator_remove(heap, iter), last, size,
                         heap[heap[iter].next].value, FALSE, FALSE),
                 iter, NoTrace)
     ELSE Finish(Dies(List), iter, NoTrace)
  /\ op' = Call("iterator_remove", 0, 0)
  /\ Record(FALSE, TRUE)

OpIteratorReset ==
  /\ Alive /\ iter # NULL
  /\ Finish(Returns(List, 0), iterator_reset, NoTrace)
  /\ op' = Call("iterator_reset", 0, 0)
  /\ UNCHANGED hist

\* The calls of the list on a list that has not been destroyed.  The caller
\* clears the list only while it holds no iterator, since linked_list_clear
\* frees the link under one, and a cached size that has wrapped around is not
\* counted down further.
ListAppend == Alive /\ OpAppend

ListPrepend == Alive /\ OpPrepend

ListClear == Alive /\ iter = NULL /\ size <= MaxNodes /\ OpClear

\* Calls of the list and of one iterator on it, until the list is destroyed.
NextIter ==
  \/ ListAppend \/ ListPrepend \/ ListClear
  \/ OpListIterator \/ OpIteratorDestroy \/ OpIteratorNext
  \/ OpIteratorInsert \/ OpIteratorRemove \/ OpIteratorReset
  \/ OpDestroy

SpecIter == Init /\ [][NextIter]_vars

OpIteratorHasNext ==
  /\ Alive /\ iter # NULL
  /\ Finish(Returns(List, IF iterator_has_next(heap, iter) THEN 1 ELSE 0),
            iter, NoTrace)
  /\ op' = Call("iterator_has_next", 0, 0)
  /\ UNCHANGED hist

OpIteratorCurrent ==
  /\ Alive /\ iter # NULL
  /\ Finish(Returns(List, iterator_current(heap, iter)), iter, NoTrace)
  /\ op' = Call("iterator_current", 0, 0)
  /\ UNCHANGED hist

\* Lists built by append and prepend with one iterator that is moved over
\* them, removes at its cursor and is asked for has_next and current.
NextPeek ==
  \/ ListAppend \/ ListPrepend
  \/ OpListIterator \/ OpIteratorNext \/ OpIteratorRemove \/ OpIteratorReset
  \/ OpIteratorHasNext \/ OpIteratorCurrent

SpecPeek == Init /\ [][NextPeek]_vars

\* ------------------------------------------------------------ all queries
OpSize ==
  /\ ~crashed
  /\ Commit(Returns(List, linked_list_size(List)))
  /\ op' = Call("size", 0, 0)
  /\ UNCHANGED hist

OpCalculateSize ==
  /\ ~crashed
  /\ Commit(Returns(List, linked_list_calculate_size(List)))
  /\ op' = Call("calculate_size", 0, 0)
  /\ UNCHANGED hist

OpIsEmpty ==
  /\ ~crashed
  /\ Commit(Returns(List, IF linked_list_is_empty(List) THEN 1 ELSE 0))
  /\ op' = Call("is_empty", 0, 0)
  /\ UNCHANGED hist

\* Lists built by append and prepend and emptied by clear, asked with every
\* query of the list.
NextFrame ==
  \/ OpAppend \/ OpPrepend \/ OpClear
  \/ OpGet \/ OpContains \/ OpSize \/ OpCalculateSize \/ OpIsEmpty
  \/ OpAll \/ OpAny

SpecFrame == Init /\ [][NextFrame]_vars

\* ------------------------------------------------------------- type check
TypeOK ==
  /\ heap \in [Nodes -> [value : 0..MaxVal, next : Nodes \cup {NULL},
                         status : {"live", "free"}]]
  /\ last \in Nodes
  /\ size \in 0..(2 ^ SizeBits - 1)
  /\ crashed \in BOOLEAN
  /\ uaf \in BOOLEAN
  /\ fun \in Comparators
  /\ iter \in Nodes \cup {NULL}
  /\ iter # NULL /\ heap[first].status = "live" =>
       \A n \in {iter} \cup Range(ChainFrom(heap, iter, MaxNodes + 1)) :
         heap[n].status = "live"
  /\ trace \in [calls : Seq(Nodes \cup Values), steps : 0..(MaxNodes + 1)]
  /\ Acyclic(heap)
  /\ \A n \in Range(Chain(heap)) : heap[n].status = "live"
  /\ Renumber(heap, last, iter) = [heap |-> heap, last |-> last, iter |-> iter]

\* ------------------------------------------------------------------ claims
InsertAt(seq, i, v) ==
  SubSeq(seq, 1, i) \o <<v>> \o SubSeq(seq, i + 1, Len(seq))

DeleteAt(seq, i) == SubSeq(seq, 1, i) \o SubSeq(seq, i + 2, Len(seq))

\* The list before the last operation had as many links as its cached size.
WellFormedPre == pre.size = Len(pre.elems)

WellFormed == size = Len(Elements(heap))

\* The last operation left the elements, the cached size and the tail alone.
Untouched ==
  /\ ~crashed
  /\ Elements(heap) = pre.elems
  /\ size = pre.size
  /\ last = pre.last

\* C1: between completed operations the cached size is the number of links
\* reachable from the sentinel: size(L) = calculateSize(L).
C1_SizeIsCalculatedSize ==
  ~crashed => linked_list_size(List) = linked_list_calculate_size(List)

\* C2: the tail is the sentinel iff the list has no links, and otherwise is
\* the last link reachable from the sentinel, whose next is NULL.
C2_TailIsLastLink ==
  ~crashed =>
    IF Chain(heap) = <<>>
    THEN last = first
    ELSE /\ last = Chain(heap)[Len(Chain(heap))]
         /\ heap[last].next = NULL

\* C3: after insert(L, i, v) with 0 <= i <= size(L), get(L, i) returns v
\* and the size has grown by exactly 1.
C3_InsertThenGet ==
  (op.name = "insert" /\ op.index >= 0 /\ op.index <= pre.size
     /\ ~crashed) =>
    /\ linked_list_get(List, op.index) = Returns(List, op.value)
    /\ size = pre.size + 1

\* C4: on a list whose cached size is its number of links, remove(L, i) with
\* 0 <= i <= n-1 returns the value at i, takes 1 off the size and leaves the
\* old elements with position i deleted, so that get(L, j) gives what was
\* at j+1 for every j from i on.
C4_RemoveDeletesPosition ==
  (op.name = "remove" /\ WellFormedPre /\ op.index >= 0
     /\ op.index <= pre.size - 1) =>
    /\ ~crashed
    /\ ret = pre.elems[op.index + 1]
    /\ size = pre.size - 1
    /\ Elements(heap) = DeleteAt(pre.elems, op.index)
    /\ \A j \in 0..(pre.size - 2) :
         linked_list_get(List, j) =
           Returns(List, IF j < op.index THEN pre.elems[j + 1]
                                         ELSE pre.elems[j + 2])

C4_Witness ==
  /\ op.name = "remove" /\ WellFormedPre /\ ~crashed
  /\ pre.size = 3 /\ op.index = 1
  /\ pre.elems[2] # pre.elems[3]

\* C5: insert with an index that is out of range after normalization
\* (i > size or i < -size) changes nothing: same elements, same cached size,
\* same tail.
C5_BadInsertIndexNoMutation ==
  (op.name = "insert" /\ (op.index > pre.size \/ op.index < 0 - pre.size)) =>
    Untouched

C5_Witness ==
  /\ op.name = "insert" /\ op.index = pre.size + 1
  /\ pre.size = 2 /\ Untouched

\* C6: on a list of cached size n >= 1, remove(L, i) and get(L, i) with
\* i >= n return the no-value marker and change nothing.
C6_BadRemoveGetIndex ==
  (op.name \in {"remove", "get"} /\ pre.size >= 1 /\ op.index >= pre.size) =>
    (ret = NoValue /\ Untouched)

C6_Witness ==
  /\ op.name = "remove" /\ WellFormedPre /\ pre.size = 3
  /\ op.index = 3 /\ ret = NoValue /\ Untouched

\* C7: on an empty list every index is rejected by remove and get: they
\* return the no-value marker without stepping to a missing link, and the
\* size stays 0.
C7_EmptyListRejectsEveryIndex ==
  (op.name \in {"remove", "get"} /\ pre.size = 0 /\ pre.elems = <<>>) =>
    (~crashed /\ ret = NoValue /\ size = 0)

\* C8: on a list of n links with cached size n, insert(L, i, v) with
\* -n <= i < 0 does what insert(L, i+n, v) does, which puts v at position
\* i+n; with i < -n it changes nothing.
C8_NegativeInsertIndex ==
  /\ WellFormed =>
       \A i \in (0 - size)..(0 - 1), v \in Values,
          new \in LinkNewChoices(List) :
         linked_list_insert(List, i, v, new) =
           linked_list_insert(List, i + size, v, new)
  /\ (op.name = "insert" /\ WellFormedPre /\ op.index < 0
        /\ op.index >= 0 - pre.size) =>
       /\ ~crashed
       /\ Elements(heap) = InsertAt(pre.elems, op.index + pre.size, op.value)
       /\ size = pre.size + 1
  /\ (op.name = "insert" /\ WellFormedPre /\ op.index < 0 - pre.size) =>
       Untouched

C8_Witness ==
  /\ op.name = "insert" /\ WellFormedPre /\ ~crashed
  /\ pre.size = 2 /\ op.index = 0 - 1
  /\ pre.elems[2] # op.value
  /\ Elements(heap) = <<pre.elems[1], op.value, pre.elems[2]>>

\* C9: on a list of n >= 1 links with cached size n, get(L, i) and
\* remove(L, i) with -(n-1) <= i < 0 act on position i+n-1 (so -1 is
\* position n-2); with i <= -n they return the no-value marker and change
\* nothing.
C9_NegativeRemoveGetIndex ==
  /\ (WellFormed /\ size >= 1) =>
       \A i \in (0 - (size - 1))..(0 - 1) :
         /\ linked_list_get(List, i) = linked_list_get(List, i + size - 1)
         /\ linked_list_remove(List, i) = linked_list_remove(List, i + size - 1)
  /\ (op.name \in {"remove", "get"} /\ WellFormedPre /\ pre.size >= 1
        /\ op.index < 0 /\ op.index >= 0 - (pre.size - 1)) =>
       /\ ~crashed
       /\ ret = pre.elems[op.index + pre.size]
       /\ op.name = "get" => Untouched
       /\ op.name = "remove" =>
            /\ size = pre.size - 1
            /\ Elements(heap) = DeleteAt(pre.elems, op.index + pre.size - 1)
  /\ (op.name \in {"remove", "get"} /\ WellFormedPre /\ pre.size >= 1
        /\ op.index <= 0 - pre.size) =>
       (ret = NoValue /\ Untouched)

C9_Witness ==
  /\ op.name = "remove" /\ WellFormedPre /\ ~crashed
  /\ pre.size = 3 /\ op.index = 0 - 1
  /\ pre.elems[2] # pre.elems[3]
  /\ ret = pre.elems[2]

\* C10: after k inserts (insert, append, prepend) that each put a link into
\* a freshly created list, with no remove and no clear, size(L) = k and
\* calculateSize(L) = size(L).
C10_SizeCountsInserts ==
  ~hist.removed =>
    /\ linked_list_size(List) = hist.inserts
    /\ linked_list_calculate_size(List) = linked_list_size(List)

C10_Witness ==
  /\ ~hist.removed /\ hist.inserts = 3 /\ size = 3
  /\ op.name = "insert" /\ op.index = 1


\* C11: when the allocation of the new node fails during append, prepend or
\* insert (front, end or interior), the call does nothing: the elements, the
\* cached size and the tail are what they were, and a list whose size was its
\* number of links still has that property.
C11_AllocFailureNoMutation ==
  op.name \in {"append_nomem", "prepend_nomem", "insert_nomem"}
    => /\ Untouched
       /\ WellFormedPre => WellFormed

\* The tail is the sentinel of a list without links and its last link
\* otherwise.
TailIsLast ==
  IF Chain(heap) = <<>> THEN last = first
  ELSE last = Chain(heap)[Len(Chain(heap))]

\* C12: from one list state whose size and tail are right, append(L, v) and
\* insert(L, size(L), v) end in the same list (elements, size, tail), and so
\* do prepend(L, v) and insert(L, 0, v), the empty list, where index 0 is the
\* size, included.
C12_InsertAtEndsIsAppendPrepend ==
  (~crashed /\ WellFormed /\ TailIsLast) =>
    \A value \in Values, new \in LinkNewChoices(List) \cup {NULL} :
      /\ linked_list_insert(List, linked_list_size(List), value, new)
           = linked_list_append(List, value, new)
      /\ linked_list_insert(List, 0, value, new)
           = linked_list_prepend(List, value, new)

\* insert(L, 0, v) on the empty list has ended as append(L, v) ends.
C12_Witness ==
  /\ op.name = "insert" /\ op.index = 0
  /\ pre.elems = <<>> /\ pre.size = 0 /\ pre.last = first
  /\ ~crashed
  /\ Elements(heap) = <<op.value>>
  /\ size = 1
  /\ last = Chain(heap)[1]

\* C13: clear(L) on a list whose cached size is its number of links leaves no
\* link reachable from the sentinel, a cached size of 0 and is_empty true,
\* with the sentinel still allocated and still the head of the list.
C13_ClearEmptiesList ==
  (op.name = "clear" /\ WellFormedPre) =>
    /\ ~crashed
    /\ Chain(heap) = <<>>
    /\ linked_list_size(List) = 0
    /\ linked_list_is_empty(List)
    /\ first = Sentinel
    /\ heap[first].status = "live"

\* A clear of a list of two or more links has ended.
C13_Witness ==
  /\ op.name = "clear" /\ WellFormedPre /\ pre.size >= 2
  /\ Chain(heap) = <<>> /\ size = 0

\* The cells of the first n links of a list, in order.
Positions(n) == [i \in 1..n |-> i]

\* C14: apply_to_all calls the transform once for each stored value, in index
\* order, and for nothing else: never for the value slot of the sentinel, and
\* size(L) times on a list whose size is its number of links (0 times on an
\* empty list).
C14_ApplyOncePerElement ==
  op.name = "apply_to_all" =>
    /\ trace.calls = Positions(Len(pre.elems))
    /\ first \notin Range(trace.calls)
    /\ WellFormedPre => Len(trace.calls) = pre.size

\* Element i of the list satisfied the predicate of the last all or any.
Sat(i) == Holds(op.prop, pre.elems[i], op.value)

FirstFailing ==
  CHOOSE k \in 1..Len(pre.elems) : ~Sat(k) /\ \A j \in 1..(k - 1) : Sat(j)

FirstSatisfying ==
  CHOOSE k \in 1..Len(pre.elems) : Sat(k) /\ \A j \in 1..(k - 1) : ~Sat(j)

\* C15: all stops at the first element that fails the predicate: it returns
\* false, has called the predicate on the elements up to that one only, and
\* has not moved its traversal past that element.
C15_AllStopsAtFirstFailure ==
  (op.name = "all" /\ \E i \in 1..Len(pre.elems) : ~Sat(i)) =>
    /\ ret = 0
    /\ trace.calls = Positions(FirstFailing)
    /\ trace.steps <= FirstFailing

\* C16: any stops at the first element that satisfies the predicate: it
\* returns true, has called the predicate on the elements up to that one
\* only, and has not moved its traversal past that element.
C16_AnyStopsAtFirstSuccess ==
  (op.name = "any" /\ \E i \in 1..Len(pre.elems) : Sat(i)) =>
    /\ ret = 1
    /\ trace.calls = Positions(FirstSatisfying)
    /\ trace.steps <= FirstSatisfying

\* any has returned true with elements left after the satisfying one.
C16_Witness ==
  /\ op.name = "any"
  /\ \E i \in 1..Len(pre.elems) : Sat(i)
  /\ FirstSatisfying > 1 /\ FirstSatisfying < Len(pre.elems)
  /\ ret = 1
  /\ trace.steps = FirstSatisfying

\* C17: all returns true exactly when every element satisfies the predicate
\* (so true on the empty list), any exactly when at least one does (so false
\* on the empty list).
C17_AllAnyQuantify ==
  /\ op.name = "all" => (ret = 1 <=> \A i \in 1..Len(pre.elems) : Sat(i))
  /\ op.name = "any" => (ret = 1 <=> \E i \in 1..Len(pre.elems) : Sat(i))
  /\ op.name \in {"all", "any"} => ret \in {0, 1}

\* all has returned true for a list of two or more elements whose size is its
\* number of links.
C17_Witness ==
  /\ op.name = "all" /\ WellFormedPre /\ Len(pre.elems) >= 2
  /\ \A i \in 1..Len(pre.elems) : Sat(i)
  /\ ret = 1

\* C18: contains returns true exactly when list->fun holds of some stored
\* element and the value asked for, so false on the empty list, and it never
\* compares the value slot of the sentinel.
C18_ContainsIffSomeEqual ==
  op.name = "contains" =>
    /\ ret \in {0, 1}
    /\ ret = 1 <=> \E i \in 1..Len(pre.elems) : Equals(fun, pre.elems[i], op.value)
    /\ pre.elems = <<>> => ret = 0
    /\ first \notin Range(trace.calls)

\* contains has found its value behind a different first element.
C18_Witness ==
  /\ op.name = "contains" /\ WellFormedPre /\ Len(pre.elems) >= 2
  /\ fun = "compare_int_elements"
  /\ pre.elems[1] # op.value
  /\ ret = 1
  /\ trace.steps >= 2

\* C19: after destroy(L) every node allocated for L (the sentinel and the
\* links put in by append, prepend, insert and iterator_insert) that was not
\* freed before has been freed: no node is left allocated.
C19_DestroyFreesEveryNode ==
  op.name = "destroy" => \A n \in Nodes : heap[n].status = "free"

\* C20: iterator_insert(iter, v) leaves the cursor where it was and makes v
\* the next element: has_next is true, current is v, next returns v, and
\* after it come the elements that followed the cursor before, in their
\* order; for a cursor on the list, v is in the list right after the cursor.
C20_IteratorInsertIsNext ==
  op.name = "iterator_insert" =>
    /\ ~crashed
    /\ iterator_has_next(heap, iter)
    /\ iterator_current(heap, iter) = op.value
    /\ heap[iterator_next(heap, iter)].value = op.value
    /\ ValuesFrom(heap, iterator_next(heap, iter)) = pre.rest
    /\ pre.at <= Len(pre.elems) =>
         /\ iter = pre.at
         /\ Elements(heap) = InsertAt(pre.elems, pre.at, op.value)

\* An insert between two elements of a list whose size was its number of
\* links has ended.
C20_Witness ==
  /\ op.name = "iterator_insert" /\ WellFormedPre
  /\ pre.at >= 1 /\ pre.at <= Len(pre.elems) /\ Len(pre.rest) >= 1
  /\ iter = pre.at
  /\ ValuesFrom(heap, iter) = <<op.value>> \o pre.rest

\* C21: iterator_remove on an iterator that has a next element returns the
\* value iterator_next would have yielded and takes exactly that link out:
\* the cursor stays where it was, the elements after the removed one follow
\* it now (the first of them is what the following iterator_next yields), and
\* for a cursor on the list the list has lost the element after the cursor
\* and nothing else.
C21_IteratorRemoveTakesNext ==
  (op.name = "iterator_remove" /\ pre.rest # <<>>) =>
    /\ ~crashed
    /\ ret = pre.rest[1]
    /\ ValuesFrom(heap, iter) = Tail(pre.rest)
    /\ iterator_has_next(heap, iter) <=> Len(pre.rest) >= 2
    /\ Len(pre.rest) >= 2 => heap[iterator_next(heap, iter)].value = pre.rest[2]
    /\ pre.at <= Len(pre.elems) =>
         /\ iter = pre.at
         /\ Elements(heap) = DeleteAt(pre.elems, pre.at)

\* An iterator_remove between two elements of a list whose size was its
\* number of links has ended.
C21_Witness ==
  /\ op.name = "iterator_remove" /\ WellFormedPre
  /\ pre.at >= 1 /\ pre.at <= Len(pre.elems) /\ Len(pre.rest) >= 2
  /\ ~crashed /\ iter = pre.at
  /\ ret = pre.rest[1]
  /\ Elements(heap) = DeleteAt(pre.elems, pre.at)

\* C22: iterator_current returns the value the next iterator_next would
\* yield and moves and changes nothing; it returns the no-value marker -1
\* exactly when iterator_has_next is false, as for a new iterator on an
\* empty list and for one that has yielded the last element.
C22_CurrentPeeksNext ==
  op.name = "iterator_current" =>
    /\ ~crashed
    /\ iter = pre.at
    /\ Elements(heap) = pre.elems /\ size = pre.size /\ last = pre.last
    /\ ValuesFrom(heap, iter) = pre.rest
    /\ iterator_has_next(heap, iter) <=> pre.rest # <<>>
    /\ iterator_has_next(heap, iter) =>
         /\ ret = pre.rest[1]
         /\ ret = heap[iterator_next(heap, iter)].value
    /\ ~iterator_has_next(heap, iter) => ret = -1

\* iterator_current has been asked after the last element was yielded.
C22_Witness ==
  /\ op.name = "iterator_current"
  /\ pre.elems # <<>> /\ pre.at = Len(pre.elems) /\ pre.rest = <<>>
  /\ ret = -1

\* C23: a new iterator and one that was reset stand at the sentinel, and the
\* iterator_next calls made from there while iterator_has_next is true yield
\* get(L, 0), get(L, 1), ... in that order; on a list whose size n is its
\* number of links iterator_has_next turns false after exactly n calls.
C23_TraversalYieldsGets ==
  /\ op.name \in {"list_iterator", "iterator_reset"} =>
       iter = first /\ trace = NoTrace
  /\ (/\ op.name = "iterator_next" /\ ~crashed /\ WellFormed
      /\ iter <= Len(Elements(heap)) /\ trace.steps = iter) =>
       /\ trace.calls = [i \in 1..iter |-> linked_list_get(List, i - 1).ret]
       /\ ret = trace.calls[iter]
       /\ ~iterator_has_next(heap, iter) <=> trace.steps = linked_list_size(List)

\* A traversal from the sentinel has yielded the last of three elements.
C23_Witness ==
  /\ op.name = "iterator_next" /\ ~crashed /\ WellFormed
  /\ Len(Elements(heap)) = MaxNodes
  /\ trace.steps = MaxNodes /\ iter = MaxNodes
  /\ trace.calls = Elements(heap)
  /\ ~iterator_has_next(heap, iter)

Queries ==
  {"get", "contains", "size", "calculate_size", "is_empty", "all", "any"}

\* C24: get, contains, size, calculate_size, is_empty, all and any leave the
\* list as it was: the elements, the cached size and the tail after the call
\* are those before it; calculate_size does not write the cached size.
C24_QueriesChangeNothing ==
  (op.name \in Queries /\ ~crashed) =>
    /\ Elements(heap) = pre.elems
    /\ size = pre.size
    /\ last = pre.last

\* calculate_size has counted fewer links than the cached size says and the
\* cached size is what it was.
C24_Witness ==
  /\ op.name = "calculate_size" /\ ~crashed
  /\ ret # pre.size
  /\ ret = Len(pre.elems) /\ size = pre.size

\* C25: iterator_insert and iterator_remove by the caller's iterator keep the
\* tail right: on a list whose tail was its last link (the sentinel when it
\* had none), the tail is the last link afterwards as well, the inserted one
\* after an insert behind the last link and the new last link after a remove
\* of the last one.
C25_IteratorKeepsTail ==
  (/\ op.name \in {"iterator_insert", "iterator_remove"} /\ ~crashed
   /\ pre.last = Len(pre.elems) /\ pre.at <= Len(pre.elems)) =>
    TailIsLast

\* C26: no list operation reads or writes a link that has been freed.
C26_NoUseAfterFree == ~uaf

\* C27: the links reachable from the sentinel form a finite chain without
\* repetition that does not lead back to the sentinel, so a walk from the
\* sentinel reaches the end; clear makes as many iterator_remove calls as the
\* list has links and leaves none.
C27_ChainEndsAndClearCounts ==
  /\ Acyclic(heap)
  /\ first \notin Range(Chain(heap))
  /\ Advance(heap, first, MaxNodes + 1) = NULL
  /\ linked_list_calculate_size(List) = Len(Chain(heap))
  /\ (op.name = "clear" /\ ~crashed) =>
       /\ trace.steps = Len(pre.elems)
       /\ Chain(heap) = <<>>

\* A clear of a list of as many links as fit has ended.
C27_Witness ==
  /\ op.name = "clear" /\ ~crashed
  /\ Len(pre.elems) = MaxNodes
  /\ trace.steps = MaxNodes
  /\ Chain(heap) = <<>>

====
